---- MODULE Spec2Model ----
(***************************************************************************)
(* License verification (src/src/verification.rs, src/src/lib.rs).         *)
(*                                                                         *)
(* A LicenseVerifier is built once from a JWK public-key descriptor and    *)
(* then verifies signed license envelopes.  JSON values, base64url         *)
(* segments and signatures are modelled symbolically: a JSON value by its  *)
(* shape, a segment by the bytes it decodes to, an RSA signature by the    *)
(* key, algorithm and message it was produced for.                         *)
(***************************************************************************)
EXTENDS Naturals, FiniteSets, Sequences, TLC

VARIABLES descriptor, verifier, call

vars == <<descriptor, verifier, call>>

---------------------------------------------------------------------------
(* Bounds of the model *)

MaxId == 2

NumFlipBits == 2

NumThreads == 2

---------------------------------------------------------------------------
(* Data: License and its JSON forms *)

Ids == 1..MaxId

Dates == {"2024-10-01T00:00:00Z", "2025-10-01T00:00:00Z"}

CustomDatas == {"owner_John_Doe", "null"}

\* A Uuid is accepted in several textual forms that parse to the same value.
IdForms == {"hyphenated", "simple"}

License == [id : Ids, expirationDate : Dates, customData : CustomDatas]

NoLicense == [id |-> 0, expirationDate |-> "", customData |-> ""]

\* The JSON value found under "license": missing, not of the License shape,
\* or an object with the three fields.
LicenseJson ==
    {[kind |-> "absent"], [kind |-> "malformed"]}
    \cup {[kind |-> "object", id |-> i, idForm |-> f, expirationDate |-> d, customData |-> c] :
            i \in Ids, f \in IdForms, d \in Dates, c \in CustomDatas}

\* serde deserialization of a License: the textual form of the id is dropped.
DeserializeLicense(j) ==
    IF j.kind = "object"
    THEN [ok |-> TRUE,
          value |-> [id |-> j.id, expirationDate |-> j.expirationDate, customData |-> j.customData]]
    ELSE [ok |-> FALSE, value |-> NoLicense]

---------------------------------------------------------------------------
(* Data: the segments of licenseValidation *)

Algs == {"RS512", "ES512"}

Keys == {"K1", "K2"}

\* JSON serializations of one License differ in whitespace and key order.
Variants == {"compact", "spaced"}

ProtectedSegs ==
    {[kind |-> "absent"], [kind |-> "nonstring"], [kind |-> "string", content |-> "notheader"]}
    \cup {[kind |-> "string", content |-> "header", alg |-> a] : a \in Algs}

PayloadSegs ==
    {[kind |-> "absent"], [kind |-> "nonstring"],
     [kind |-> "string", content |-> "notbase64"],
     [kind |-> "string", content |-> "notlicense"]}
    \cup {[kind |-> "string", content |-> "license", license |-> l, variant |-> v] :
            l \in License, v \in Variants}

\* Variation: the signing input rebuilt from a re-serialized payload instead
\* of the segment as received.
DataToVerifyReencoded(p, q) ==
    <<p, ".", IF q.kind = "string" /\ q.content = "license" THEN [q EXCEPT !.variant = "compact"] ELSE q>>

\* format!("{}.{}", protected_to_verify, payload_to_verify): both segments
\* verbatim, one "." between them.
DataToVerify(p, q) == <<p, ".", q>>

\* The signature the private key of k produces with algorithm a over p "." q;
\* flip > 0 is that signature with bit number flip inverted.
Sign(k, a, p, q, flip) ==
    [kind |-> "string", content |-> "signature", key |-> k, alg |-> a, msg |-> <<p, ".", q>>, flip |-> flip]

OtherAlg(p) == [p EXCEPT !.alg = IF @ = "RS512" THEN "ES512" ELSE "RS512"]

OtherVariant(q) == [q EXCEPT !.variant = IF @ = "compact" THEN "spaced" ELSE "compact"]

\* The messages a signature found in an envelope may have been produced for:
\* the envelope's own segments, the same payload under the other header, or
\* the other serialization of the same License.
SignedMessages(p, q) ==
    {<<p, q>>}
    \cup (IF p.kind = "string" /\ p.content = "header" THEN {<<OtherAlg(p), q>>} ELSE {})
    \cup (IF q.kind = "string" /\ q.content = "license" THEN {<<p, OtherVariant(q)>>} ELSE {})

\* The value found under "signature": missing (or misspelled), replaced by a
\* "signatures" array (the general JWS shape), a string that is not
\* base64url, bytes Signature::try_from refuses, or signature bytes.
SignatureSlots(p, q) ==
    {[kind |-> "absent"], [kind |-> "general"],
     [kind |-> "string", content |-> "notbase64"],
     [kind |-> "string", content |-> "rejected"]}
    \cup {Sign(k, "RS512", m[1], m[2], 0) : k \in Keys, m \in SignedMessages(p, q)}
    \cup {Sign(k, "ES512", p, q, 0) : k \in Keys}

LicenseValidationJson ==
    {[kind |-> "absent"], [kind |-> "nonobject"]}
    \cup UNION {UNION {{[kind |-> "object", protected |-> p, payload |-> q, signature |-> s] :
                            s \in SignatureSlots(p, q)} : q \in PayloadSegs} : p \in ProtectedSegs}

\* The serde_json::Value handed to verify.
Envelopes == [license : LicenseJson, licenseValidation : LicenseValidationJson]

NoEnvelope == [license |-> [kind |-> "absent"], licenseValidation |-> [kind |-> "absent"]]

---------------------------------------------------------------------------
(* LicenseVerifier::new *)

KeyTypes == {"RSA", "EC"}

DeclaredAlgs == {"RS512", "RS256"}

ModulusSizes == {"below_minimum", "sufficient"}

\* The serde_json::Value handed to new: whether it conforms to the JWK
\* schema, and what it declares if it does.
Descriptors ==
    [schema : BOOLEAN, kty : KeyTypes, alg : DeclaredAlgs, modulus : ModulusSizes,
     parameters : {"ok", "malformed"}, key : Keys]

NoDescriptor ==
    [schema |-> FALSE, kty |-> "EC", alg |-> "RS256", modulus |-> "below_minimum",
     parameters |-> "malformed", key |-> "K1"]

\* serde_json::from_value::<Jwk>
JwkFromValue(d) == d.schema

\* Variation: the size of the modulus is not looked at.
IsSupportedAnySize(d) == d.kty = "RSA" /\ d.alg = "RS512"

\* Jwk::is_supported(Rs512): an RSA key, large enough for the digest, not
\* declared for another algorithm.
IsSupported(d) == d.kty = "RSA" /\ d.modulus = "sufficient" /\ d.alg = "RS512"

\* RsaPublicKey::try_from(&jwk_rsa_key)
RsaPublicKeyTryFrom(d) == d.parameters = "ok"

NoVerifier == [kind |-> "none", error |-> "", rsa_public_key |-> ""]

VerifierErr(e) == [kind |-> "err", error |-> e, rsa_public_key |-> ""]

LicenseVerifierNew(d) ==
    IF ~JwkFromValue(d) THEN VerifierErr("KeyIsNotJwk")
    ELSE IF ~IsSupported(d) THEN VerifierErr("KeyTypeNotSupported")
    ELSE IF d.kty = "RSA"
         THEN IF RsaPublicKeyTryFrom(d)
              THEN [kind |-> "ok", error |-> "", rsa_public_key |-> d.key]
              ELSE VerifierErr("KeyTypeNotSupported")
         ELSE VerifierErr("KeyTypeNotSupported")

---------------------------------------------------------------------------
(* LicenseVerifier::verify: the state of one call and its steps *)

Ok(l) == [kind |-> "Ok", error |-> "", license |-> l]

Err(e) == [kind |-> "Err", error |-> e, license |-> NoLicense]

NoResult == [kind |-> "none", error |-> "", license |-> NoLicense]

NoBytes == [kind |-> "none"]

NoJws == [shape |-> "none", payload |-> NoBytes, signature |-> NoBytes]

\* A call before it starts: its input and its locals, not yet assigned.
\* base and derived record how the input was obtained from the input of the
\* caller's previous, successful call ("none", "license" or "signature").
IdleCall ==
    [pc |-> "idle", env |-> NoEnvelope, base |-> NoEnvelope, derived |-> "none",
     verifiable_license |-> NoLicense, data_to_verify |-> <<>>, license_validation |-> NoJws,
     protected_license |-> NoLicense, rsa_signature |-> NoBytes,
     passed_tamper_check |-> FALSE, result |-> NoResult]

Begin(e, b, how) == [IdleCall EXCEPT !.pc = "decode", !.env = e, !.base = b, !.derived = how]

Fail(c, e) == [c EXCEPT !.pc = "done", !.result = Err(e)]

\* serde_json::from_value::<VerifiableLicense>: both fields are required and
\* "license" must deserialize as a License.
StepDecode(v, c) ==
    LET lic == DeserializeLicense(c.env.license)
    IN  IF ~lic.ok \/ c.env.licenseValidation.kind = "absent"
        THEN Fail(c, "InvalidVerifiableLicense")
        ELSE [c EXCEPT !.pc = "segments", !.verifiable_license = lic.value]

\* as_object, get("protected").as_str, get("payload").as_str, format!
StepSegments(v, c) ==
    LET lv == c.env.licenseValidation
    IN  IF lv.kind # "object" THEN Fail(c, "InvalidVerifiableLicense")
        ELSE IF lv.protected.kind # "string" THEN Fail(c, "InvalidVerifiableLicense")
        ELSE IF lv.payload.kind # "string" THEN Fail(c, "InvalidVerifiableLicense")
        ELSE [c EXCEPT !.pc = "jws", !.data_to_verify = DataToVerify(lv.protected, lv.payload)]

\* base64url decoding of a segment to its bytes (for the protected segment,
\* to a JSON header).
Base64Decode(seg) ==
    IF seg.kind = "string" /\ seg.content # "notbase64" /\ seg.content # "notheader"
    THEN [ok |-> TRUE, bytes |-> [seg EXCEPT !.kind = "bytes"]]
    ELSE [ok |-> FALSE, bytes |-> NoBytes]

\* Variation: a flattened JWS is accepted without a decodable "signature".
JwsFromValueLax(lv) ==
    IF lv.signature.kind = "general"
    THEN [ok |-> TRUE, jws |-> [NoJws EXCEPT !.shape = "General"]]
    ELSE IF ~Base64Decode(lv.protected).ok \/ ~Base64Decode(lv.payload).ok
    THEN [ok |-> FALSE, jws |-> NoJws]
    ELSE [ok |-> TRUE,
          jws |-> [shape |-> "Flattened", payload |-> Base64Decode(lv.payload).bytes,
                   signature |-> IF Base64Decode(lv.signature).ok
                                 THEN Base64Decode(lv.signature).bytes
                                 ELSE [kind |-> "bytes", content |-> "rejected"]]]

\* serde_json::from_value::<Jws>: the general shape carries "signatures"; the
\* flattened shape needs "signature", and every segment must decode.
JwsFromValue(lv) ==
    IF lv.signature.kind = "general"
    THEN [ok |-> TRUE, jws |-> [NoJws EXCEPT !.shape = "General"]]
    ELSE IF lv.signature.kind = "absent" THEN [ok |-> FALSE, jws |-> NoJws]
    ELSE IF ~Base64Decode(lv.signature).ok \/ ~Base64Decode(lv.protected).ok
            \/ ~Base64Decode(lv.payload).ok
    THEN [ok |-> FALSE, jws |-> NoJws]
    ELSE [ok |-> TRUE,
          jws |-> [shape |-> "Flattened", payload |-> Base64Decode(lv.payload).bytes,
                   signature |-> Base64Decode(lv.signature).bytes]]

\* let Jws::Flattened(license_validation) = from_value(..)? else { return Err }
StepJws(v, c) ==
    LET j == JwsFromValue(c.env.licenseValidation)
    IN  IF ~j.ok \/ j.jws.shape # "Flattened"
        THEN Fail(c, "InvalidVerifiableLicense")
        ELSE [c EXCEPT !.pc = "payload", !.license_validation = j.jws]

\* serde_json::from_slice::<License>: the serialization variant is dropped.
LicenseFromSlice(bytes) ==
    IF bytes.kind = "bytes" /\ bytes.content = "license"
    THEN [ok |-> TRUE, value |-> bytes.license]
    ELSE [ok |-> FALSE, value |-> NoLicense]

StepPayload(v, c) ==
    LET l == LicenseFromSlice(c.license_validation.payload)
    IN  IF c.license_validation.payload.kind = "none" \/ ~l.ok
        THEN Fail(c, "InvalidVerifiableLicense")
        ELSE [c EXCEPT !.pc = "tamper", !.protected_license = l.value]

\* Signature::try_from(bytes): a Result; which byte strings it refuses is the
\* rsa crate's decision.  Signature-sized and shorter byte strings convert
\* (tests license_verification_with_tampered_signature and
\* license_verification_with_non_rs512_signature reach the verification).
SignatureTryFrom(bytes) ==
    IF bytes.kind = "bytes" /\ bytes.content = "signature"
    THEN [ok |-> TRUE, signature |-> bytes]
    ELSE [ok |-> FALSE, signature |-> NoBytes]

\* Variation: the algorithm is taken from the protected header.
RsaVerifyHeaderAlg(key, data, sig) ==
    /\ sig.key = key
    /\ sig.alg = data[1].alg
    /\ sig.msg = data
    /\ sig.flip = 0

\* Variation: a signature with an inverted bit still validates.
RsaVerifyMalleable(key, data, sig) ==
    /\ sig.key = key
    /\ sig.alg = "RS512"
    /\ sig.msg = data

\* VerifyingKey::<Sha512>::verify: RSASSA-PKCS1-v1_5 is deterministic, so
\* exactly the signature the matching private key produces with SHA-512 over
\* the very same bytes validates.
RsaVerify(key, data, sig) ==
    /\ sig.key = key
    /\ sig.alg = "RS512"
    /\ sig.msg = data
    /\ sig.flip = 0

\* Variation: the signature is checked first, the licenses compared after.
StepTamperAfterSignature(v, c) ==
    IF SignatureTryFrom(c.license_validation.signature).ok
       /\ ~RsaVerify(v.rsa_public_key, c.data_to_verify, c.license_validation.signature)
    THEN Fail(c, "VerificationFailure")
    ELSE IF c.protected_license # c.verifiable_license
    THEN Fail(c, "TamperedLicense")
    ELSE [c EXCEPT !.pc = "convert", !.passed_tamper_check = TRUE]

\* Variation: the clear-text license is compared as text, not as a License.
StepTamperOnText(v, c) ==
    IF c.protected_license # c.verifiable_license \/ c.env.license.idForm # "hyphenated"
    THEN Fail(c, "TamperedLicense")
    ELSE [c EXCEPT !.pc = "convert", !.passed_tamper_check = TRUE]

\* Variation: only the ids are compared.
StepTamperOnIdOnly(v, c) ==
    IF c.protected_license.id # c.verifiable_license.id
    THEN Fail(c, "TamperedLicense")
    ELSE [c EXCEPT !.pc = "convert", !.passed_tamper_check = TRUE]

\* if protected_license != verifiable_license.license { return Err(Tampered) }
StepTamper(v, c) ==
    IF c.protected_license # c.verifiable_license
    THEN Fail(c, "TamperedLicense")
    ELSE [c EXCEPT !.pc = "convert", !.passed_tamper_check = TRUE]

\* Signature::try_from(..).map_err(|_| InvalidVerifiableLicense)?
StepConvert(v, c) ==
    LET s == SignatureTryFrom(c.license_validation.signature)
    IN  IF ~s.ok THEN Fail(c, "InvalidVerifiableLicense")
        ELSE [c EXCEPT !.pc = "verify", !.rsa_signature = s.signature]

\* VerifyingKey::<Sha512>::new(self.rsa_public_key.clone())
VerifyingKeyNew(v) == v.rsa_public_key

\* verifying_key.verify(..).map_err(|_| VerificationFailure)?; Ok(protected_license)
StepVerify(v, c) ==
    IF RsaVerify(VerifyingKeyNew(v), c.data_to_verify, c.rsa_signature)
    THEN [c EXCEPT !.pc = "done", !.result = Ok(c.protected_license)]
    ELSE Fail(c, "VerificationFailure")

\* Variation: the verification step leaves the signer's key in the verifier.
SelfAfterStepKeyFromSignature(v, c) ==
    IF c.pc = "verify" THEN [v EXCEPT !.rsa_public_key = c.rsa_signature.key] ELSE v

\* verify takes &self: the verifier a step leaves behind is the one it found.
SelfAfterStep(v, c) == v

\* The step a call at c.pc takes.
StepAt(v, c) ==
    CASE c.pc = "decode" -> StepDecode(v, c)
      [] c.pc = "segments" -> StepSegments(v, c)
      [] c.pc = "jws" -> StepJws(v, c)
      [] c.pc = "payload" -> StepPayload(v, c)
      [] c.pc = "tamper" -> StepTamper(v, c)
      [] c.pc = "convert" -> StepConvert(v, c)
      [] c.pc = "verify" -> StepVerify(v, c)
      [] OTHER -> c

RECURSIVE Run(_, _)
Run(v, c) == IF c.pc \in {"done", "idle"} THEN c ELSE Run(v, StepAt(v, c))

\* One whole call of verify, alone, on the verifier v.
Verify(v, e) == Run(v, Begin(e, NoEnvelope, "none")).result

---------------------------------------------------------------------------
(* Actions *)

Threads == DOMAIN call

\* LicenseVerifier::new(public_key)
New(d) ==
    /\ verifier.kind = "none"
    /\ descriptor' = d
    /\ verifier' = LicenseVerifierNew(d)
    /\ UNCHANGED call

\* A caller hands an envelope of the set E to verify on the constructed
\* verifier.
Submit(t, E) ==
    /\ verifier.kind = "ok"
    /\ call[t].pc = "idle"
    /\ \E e \in E : call' = [call EXCEPT ![t] = Begin(e, NoEnvelope, "none")]
    /\ UNCHANGED <<descriptor, verifier>>

Advance(t, at) ==
    /\ verifier.kind = "ok"
    /\ call[t].pc = at
    /\ call' = [call EXCEPT ![t] = StepAt(verifier, call[t])]
    /\ verifier' = SelfAfterStep(verifier, call[t])
    /\ UNCHANGED descriptor

Decode(t) == Advance(t, "decode")

Segments(t) == Advance(t, "segments")

JwsDecode(t) == Advance(t, "jws")

PayloadDecode(t) == Advance(t, "payload")

TamperCheck(t) == Advance(t, "tamper")

SignatureConvert(t) == Advance(t, "convert")

SignatureVerify(t) == Advance(t, "verify")

\* The caller takes the result; the call's locals are dropped.
Return(t) ==
    /\ call[t].pc = "done"
    /\ call' = [call EXCEPT ![t] = IdleCall]
    /\ UNCHANGED <<descriptor, verifier>>

\* The caller alters the clear-text license of an envelope verify accepted
\* and submits it again, protected, payload and signature as they were.
TamperAndCall(t) ==
    /\ call[t].pc = "done"
    /\ call[t].result.kind = "Ok"
    /\ \E j \in LicenseJson :
          /\ j.kind = "object"
          /\ j # call[t].env.license
          /\ call' = [call EXCEPT ![t] =
                        Begin([call[t].env EXCEPT !.license = j], call[t].env, "license")]
    /\ UNCHANGED <<descriptor, verifier>>

\* The caller inverts one bit of the signature of an envelope verify
\* accepted and submits it again.
FlipAndCall(t) ==
    /\ call[t].pc = "done"
    /\ call[t].result.kind = "Ok"
    /\ \E b \in 1..NumFlipBits :
          call' = [call EXCEPT ![t] =
                     Begin([call[t].env EXCEPT !.licenseValidation.signature.flip = b],
                           call[t].env, "signature")]
    /\ UNCHANGED <<descriptor, verifier>>

---------------------------------------------------------------------------
(* One caller, every envelope *)

Init ==
    /\ descriptor = NoDescriptor
    /\ verifier = NoVerifier
    /\ call = [t \in {1} |-> IdleCall]

Call(t) == Submit(t, Envelopes)

Next ==
    \/ \E d \in Descriptors : New(d)
    \/ \E t \in Threads : Call(t)
    \/ \E t \in Threads : Decode(t)
    \/ \E t \in Threads : Segments(t)
    \/ \E t \in Threads : JwsDecode(t)
    \/ \E t \in Threads : PayloadDecode(t)
    \/ \E t \in Threads : TamperCheck(t)
    \/ \E t \in Threads : SignatureConvert(t)
    \/ \E t \in Threads : SignatureVerify(t)
    \/ \E t \in Threads : Return(t)
    \/ \E t \in Threads : TamperAndCall(t)
    \/ \E t \in Threads : FlipAndCall(t)

Spec == Init /\ [][Next]_vars

---------------------------------------------------------------------------
(* Several threads sharing one verifier *)

\* The envelopes the threads submit: the License with id 1 under an RS512
\* header, in clear as signed or with the last id instead, with the bound
\* key's signature, another key's, bytes the conversion refuses, or none.
SharedHeader == [kind |-> "string", content |-> "header", alg |-> "RS512"]

SharedPayload ==
    [kind |-> "string", content |-> "license",
     license |-> [id |-> 1, expirationDate |-> "2024-10-01T00:00:00Z", customData |-> "owner_John_Doe"],
     variant |-> "compact"]

SharedEnvelopes ==
    {[license |-> [kind |-> "object", id |-> i, idForm |-> "hyphenated",
                   expirationDate |-> "2024-10-01T00:00:00Z", customData |-> "owner_John_Doe"],
      licenseValidation |-> [kind |-> "object", protected |-> SharedHeader,
                             payload |-> SharedPayload, signature |-> s]] :
        i \in {1, MaxId},
        s \in {[kind |-> "absent"], [kind |-> "string", content |-> "rejected"]}
              \cup {Sign(k, "RS512", SharedHeader, SharedPayload, 0) : k \in Keys}}

InitShared ==
    /\ descriptor = NoDescriptor
    /\ verifier = NoVerifier
    /\ call = [t \in 1..NumThreads |-> IdleCall]

CallShared(t) == Submit(t, SharedEnvelopes)

NextShared ==
    \/ \E d \in Descriptors : New(d)
    \/ \E t \in Threads : CallShared(t)
    \/ \E t \in Threads : Decode(t)
    \/ \E t \in Threads : Segments(t)
    \/ \E t \in Threads : JwsDecode(t)
    \/ \E t \in Threads : PayloadDecode(t)
    \/ \E t \in Threads : TamperCheck(t)
    \/ \E t \in Threads : SignatureConvert(t)
    \/ \E t \in Threads : SignatureVerify(t)
    \/ \E t \in Threads : Return(t)

SpecShared == InitShared /\ [][NextShared]_vars

---------------------------------------------------------------------------
(* Properties *)

Done(t) == call[t].pc = "done"

ClearLicense(e) == DeserializeLicense(e.license).value

IsHeader(p) == p.kind = "string" /\ p.content = "header"

EncodesLicense(q) == q.kind = "string" /\ q.content = "license"

\* The signature value is the one the private key matching k produces with
\* RS512 over the envelope's own protected "." payload.
CorrectlySigned(e, k) ==
    /\ e.licenseValidation.kind = "object"
    /\ e.licenseValidation.signature =
         Sign(k, "RS512", e.licenseValidation.protected, e.licenseValidation.payload, 0)

\* The envelope passes the structural steps that precede the tamper check:
\* both fields present, a License in clear, a flattened JWS whose segments
\* decode, a License in the payload.
StructurallyValid(e) ==
    /\ e.license.kind = "object"
    /\ e.licenseValidation.kind = "object"
    /\ IsHeader(e.licenseValidation.protected)
    /\ EncodesLicense(e.licenseValidation.payload)
    /\ e.licenseValidation.signature.kind = "string"
    /\ e.licenseValidation.signature.content \in {"signature", "rejected"}

\* C1 (round trip): a finished call whose envelope carries a well-formed
\* protected header, a payload encoding L, the clear-text license L and the
\* signature the private key matching the bound key produces over
\* protected "." payload returns success with exactly L.
C1_RoundTrip ==
    \A t \in Threads :
        LET e == call[t].env
        IN  (/\ Done(t)
             /\ e.license.kind = "object"
             /\ CorrectlySigned(e, verifier.rsa_public_key)
             /\ IsHeader(e.licenseValidation.protected)
             /\ EncodesLicense(e.licenseValidation.payload)
             /\ e.licenseValidation.payload.license = ClearLicense(e))
            => call[t].result = Ok(ClearLicense(e))

C1_Witness ==
    \E t \in Threads :
        LET e == call[t].env
        IN  /\ Done(t)
            /\ e.license.kind = "object"
            /\ e.license.idForm = "simple"
            /\ CorrectlySigned(e, verifier.rsa_public_key)
            /\ IsHeader(e.licenseValidation.protected)
            /\ EncodesLicense(e.licenseValidation.payload)
            /\ e.licenseValidation.payload.license = ClearLicense(e)
            /\ call[t].result.kind = "Ok"

\* C2 (soundness of success): a call that returns a License L had an
\* envelope whose signature is the bound key's RS512 signature over its own
\* protected "." payload, taken verbatim, and L is the License its payload
\* segment encodes.
C2_SuccessIsSound ==
    \A t \in Threads :
        LET e == call[t].env
        IN  (Done(t) /\ call[t].result.kind = "Ok")
            => /\ CorrectlySigned(e, verifier.rsa_public_key)
               /\ EncodesLicense(e.licenseValidation.payload)
               /\ call[t].result.license = e.licenseValidation.payload.license

C2_Witness ==
    \E t \in Threads :
        /\ Done(t)
        /\ call[t].result.kind = "Ok"
        /\ call[t].env.licenseValidation.payload.variant = "spaced"

\* C3 (tamper detection): when the clear-text license of an accepted
\* envelope is changed to a different License (id, expirationDate or
\* customData) and nothing else is, the call fails with TamperedLicense.
C3_TamperDetected ==
    \A t \in Threads :
        (/\ Done(t)
         /\ call[t].derived = "license"
         /\ ClearLicense(call[t].env) # ClearLicense(call[t].base))
        => call[t].result = Err("TamperedLicense")

C3_Witness ==
    \E t \in Threads :
        /\ Done(t)
        /\ call[t].derived = "license"
        /\ ClearLicense(call[t].env).id = ClearLicense(call[t].base).id
        /\ ClearLicense(call[t].env).expirationDate # ClearLicense(call[t].base).expirationDate
        /\ call[t].result = Err("TamperedLicense")

\* C4 (signature integrity): when one bit of the signature of an accepted
\* envelope is inverted and nothing else is changed, the call fails with
\* VerificationFailure and with no other error.
C4_SignatureIntegrity ==
    \A t \in Threads :
        (Done(t) /\ call[t].derived = "signature")
        => call[t].result = Err("VerificationFailure")

C4_Witness ==
    \E t \in Threads :
        /\ Done(t)
        /\ call[t].derived = "signature"
        /\ call[t].env.licenseValidation.signature.flip = NumFlipBits
        /\ call[t].result.kind = "Err"

DeclaresOtherAlgorithm(e) ==
    /\ e.licenseValidation.kind = "object"
    /\ IsHeader(e.licenseValidation.protected)
    /\ e.licenseValidation.protected.alg # "RS512"

\* C5 as claimed (algorithm pinning): an envelope whose protected header
\* declares an algorithm other than RS512 is never answered with success,
\* whatever its signature value.
C5_AsClaimed ==
    \A t \in Threads :
        (Done(t) /\ DeclaresOtherAlgorithm(call[t].env)) => call[t].result.kind # "Ok"

\* C5 as amended: an envelope whose protected header declares an algorithm
\* other than RS512 is answered with success only if its signature value is
\* the bound key's RS512 signature over protected "." payload; a signature
\* produced with the declared algorithm never is.
C5_AlgorithmPinning ==
    \A t \in Threads :
        (/\ Done(t)
         /\ DeclaresOtherAlgorithm(call[t].env)
         /\ ~CorrectlySigned(call[t].env, verifier.rsa_public_key))
        => call[t].result.kind # "Ok"

C5_Witness ==
    \E t \in Threads :
        LET lv == call[t].env.licenseValidation
        IN  /\ Done(t)
            /\ DeclaresOtherAlgorithm(call[t].env)
            /\ lv.signature = Sign(verifier.rsa_public_key, lv.protected.alg, lv.protected, lv.payload, 0)
            /\ call[t].result = Err("VerificationFailure")

LacksField(e) ==
    \/ e.license.kind = "absent"
    \/ e.licenseValidation.kind = "absent"
    \/ /\ e.licenseValidation.kind = "object"
       /\ \/ e.licenseValidation.protected.kind = "absent"
          \/ e.licenseValidation.payload.kind = "absent"
          \/ e.licenseValidation.signature.kind = "absent"

\* C6 (schema rejection): an input that lacks license, licenseValidation, or
\* one of protected, payload and signature fails with
\* InvalidVerifiableLicense, whatever its other fields hold.
C6_SchemaRejection ==
    \A t \in Threads :
        (Done(t) /\ LacksField(call[t].env))
        => call[t].result = Err("InvalidVerifiableLicense")

C6_Witness ==
    \E t \in Threads :
        LET e == call[t].env
        IN  /\ Done(t)
            /\ e.license.kind = "object"
            /\ e.licenseValidation.kind = "object"
            /\ IsHeader(e.licenseValidation.protected)
            /\ EncodesLicense(e.licenseValidation.payload)
            /\ e.licenseValidation.payload.license # ClearLicense(e)
            /\ e.licenseValidation.signature.kind = "absent"
            /\ call[t].result = Err("InvalidVerifiableLicense")

Usable(d) ==
    /\ d.kty = "RSA"
    /\ d.alg = "RS512"
    /\ d.modulus = "sufficient"
    /\ d.parameters = "ok"

\* C7 (key validation): new answers KeyIsNotJwk exactly when the descriptor
\* fails the key schema, whatever else it declares; a descriptor that parses
\* is answered KeyTypeNotSupported when it is not an RSA key supporting RS512
\* or its parameters give no public key; a verifier, bound to the
\* descriptor's key, only otherwise.
C7_KeyValidation ==
    verifier.kind # "none" =>
        /\ (verifier = VerifierErr("KeyIsNotJwk")) <=> ~descriptor.schema
        /\ (descriptor.schema /\ ~Usable(descriptor)) => verifier = VerifierErr("KeyTypeNotSupported")
        /\ verifier.kind = "ok" <=> (descriptor.schema /\ Usable(descriptor))
        /\ verifier.kind = "ok" => verifier.rsa_public_key = descriptor.key

C7_Witness ==
    /\ verifier = VerifierErr("KeyTypeNotSupported")
    /\ descriptor.schema
    /\ descriptor.kty = "RSA"
    /\ descriptor.alg = "RS512"
    /\ descriptor.modulus = "below_minimum"
    /\ descriptor.parameters = "ok"

C9_TamperBeforeSignature ==
    \A t \in Threads :
        LET e == call[t].env
        IN  /\ (Done(t) /\ call[t].result = Err("VerificationFailure"))
               => (StructurallyValid(e) /\ ClearLicense(e) = e.licenseValidation.payload.license)
            /\ (/\ Done(t)
                /\ StructurallyValid(e)
                /\ ClearLicense(e) # e.licenseValidation.payload.license)
               => call[t].result = Err("TamperedLicense")

C9_Witness ==
    \E t \in Threads :
        LET e == call[t].env
        IN  /\ Done(t)
            /\ StructurallyValid(e)
            /\ ClearLicense(e) # e.licenseValidation.payload.license
            /\ e.licenseValidation.signature.content = "signature"
            /\ ~CorrectlySigned(e, verifier.rsa_public_key)
            /\ call[t].result = Err("TamperedLicense")

\* C10 (statelessness): with several threads calling verify on one verifier
\* in any interleaving, the verifier stays the one new built from the
\* descriptor, and every finished call has the result the same envelope gets
\* from a call made alone on a verifier freshly built from that descriptor.
C10_Stateless ==
    /\ verifier.kind = "ok" => verifier = LicenseVerifierNew(descriptor)
    /\ \A t \in Threads :
          Done(t) => call[t].result = Verify(LicenseVerifierNew(descriptor), call[t].env)

C10_Witness ==
    \E t \in Threads, u \in Threads :
        /\ t # u
        /\ Done(t)
        /\ call[t].result.kind = "Ok"
        /\ call[u].pc = "verify"
        /\ call[u].env # call[t].env

====
